---- MODULE Spec2Model ----
(***************************************************************************)
(* lime.scheduleManager (src/lime/src/schedulemanager.js) as a state       *)
(* machine: the manager's fields, the host's tick sources (interval        *)
(* timers, webkit frame requests, the MozBeforePaint listener), and the    *)
(* position of a running tick handler inside dispatch_/step_, so that the  *)
(* calls a callback makes while the walk is in progress are interleaved    *)
(* where the code interleaves them.                                        *)
(***************************************************************************)
EXTENDS Integers, Sequences, FiniteSets

\* ------------------------------------------------------------------ bounds
\* Longest taskStack_ (the default Task included).
MaxTasks == 2
\* Most registrations held at once, over all Tasks.
MaxRegs == 2
\* Most registrations of the default Task in SpecWalk and in SpecGroup.
MaxWalk == 3
\* Largest timestamp goog.now() / a frame notification reports.
MaxTime == 2
\* Largest value of a Task's countdown (it grows when a delta is negative).
MaxAcc == 3
\* Most scheduleManager calls one callback invocation makes.
MaxCbOps == 1
\* Most frame requests outstanding at once.
MaxChains == 2

\* The (callback, context) pairs the application schedules: a node that
\* answers getDirector() with director "G", and a plain object without one.
Pairs == {<<"f1", "nodeG">>, <<"f2", "obj">>}
\* a callback scheduled with a null (or omitted, undefined) context
NullPairs == {<<"f3", "null">>}
\* delay arguments of scheduleWithDelay / callAfter / new Task
Delays == {2}
\* opt_limit arguments (-1 stands for an omitted opt_limit, line 61)
Limits == {-1, 0, 1}
\* 1000 / 30, in whole ms
DefaultRate == 33
\* values passed to setDisplayRate
Rates == {DefaultRate}
Directors == {"G"}
Times == 0..MaxTime
Hosts == {"interval", "webkit", "moz"}

VARIABLES
    taskStack_,     \* Seq of Task
    active_,
    intervalID_,
    displayRate_,
    lastRunTime_,
    host,           \* which branch USE_ANIMATION_FRAME / window.moz... selects
    timers,         \* live setInterval timers: set of [id, rate]
    rafPending,     \* outstanding webkitRequestAnimationFrame requests
    mozListeners,   \* registered MozBeforePaint listeners
    mozRequested,   \* a MozBeforePaint event has been requested
    pc,             \* "idle", or "callback": a handler runs and is inside a callback
    run,            \* the running handler's frame (locals of handler, dispatch_, step_)
    thrown          \* the last handler run or call ended by a TypeError

vars == <<taskStack_, active_, intervalID_, displayRate_, lastRunTime_, host,
          timers, rafPending, mozListeners, mozRequested, pc, run, thrown>>

\* ------------------------------------------------------------------ helpers
\* A local f of step_ that holds no entry (functionStack_[i] past the end).
Undefined == [def |-> FALSE, act |-> FALSE, f |-> "none", c |-> "none",
              seen |-> FALSE, born |-> FALSE]

\* handler, time: the running handler and its timestamp; dt, j: delta and i
\* of dispatch_; firedDelta, i, f: delta, i and f of step_; elapsed: the
\* deltas the Task had been stepped with when it fired; due: the sum of
\* deltas that firing was owed; ops, selfOnly: the calls the running
\* callback has made, and whether every call made by a callback in this
\* tick unscheduled that callback itself.
NoRun == [handler |-> "none", time |-> 0, dt |-> 0, j |-> 0, i |-> 0,
          firedDelta |-> 0, elapsed |-> 0, due |-> 0, f |-> Undefined,
          ops |-> 0, selfOnly |-> TRUE]

RemoveAt(s, k) == SubSeq(s, 1, k - 1) \o SubSeq(s, k + 1, Len(s))

\* [1, f, context] (line 141); seen and born are history flags of the
\* current tick: visited by the walk of step_, inserted during the tick.
Entry(f, c, inTick) ==
    [def |-> TRUE, act |-> TRUE, f |-> f, c |-> c, seen |-> FALSE, born |-> inTick]

\* new lime.scheduleManager.Task(maxdelta, opt_limit).  pub: the application
\* holds a reference to it.  History: opt_limit, the limit it was made with;
\* quota, the firings that limit still permits (-2: it fired beyond it);
\* stepped, the deltas step_ has counted since the Task was made or fired;
\* due, the sum of deltas its next firing is owed: the cadence, less what
\* the tick of the last firing overshot (see NextDue).
Task(maxdelta, limit, pub) ==
    [maxdelta |-> maxdelta, delta |-> maxdelta, limit |-> limit,
     functionStack_ |-> <<>>, pub |-> pub, opt_limit |-> limit, quota |-> limit,
     stepped |-> 0, due |-> maxdelta]

\* The manager and host fields as one record, so that the methods compose.
St == [taskStack_ |-> taskStack_, active_ |-> active_, intervalID_ |-> intervalID_,
       displayRate_ |-> displayRate_, lastRunTime_ |-> lastRunTime_,
       timers |-> timers, rafPending |-> rafPending,
       mozListeners |-> mozListeners, mozRequested |-> mozRequested]

Commit(s) ==
    /\ taskStack_' = s.taskStack_
    /\ active_' = s.active_
    /\ intervalID_' = s.intervalID_
    /\ displayRate_' = s.displayRate_
    /\ lastRunTime_' = s.lastRunTime_
    /\ timers' = s.timers
    /\ rafPending' = s.rafPending
    /\ mozListeners' = s.mozListeners
    /\ mozRequested' = s.mozRequested

HasRegs(stack) == \E k \in 1..Len(stack) : stack[k].functionStack_ # <<>>

\* ------------------------------------------------------------------ clock source
\* setInterval returns a handle no live timer has.
FreshTimerId(s) == CHOOSE n \in 1..(Cardinality(s.timers) + 1) :
                       \A t \in s.timers : t.id # n

\* activate_ (lines 182-204); now is the value goog.now() returns.
activate_(s, now) ==
    IF s.active_ THEN s
    ELSE LET s1 == [s EXCEPT !.lastRunTime_ = now]
             s2 == IF host = "moz"
                      THEN [s1 EXCEPT !.mozRequested = TRUE,
                                      !.mozListeners = @ + 1]
                   ELSE IF host = "webkit"
                      THEN [s1 EXCEPT !.rafPending = @ + 1]
                   ELSE [s1 EXCEPT !.intervalID_ = FreshTimerId(s1),
                                   !.timers = @ \cup {[id |-> FreshTimerId(s1),
                                                       rate |-> s1.displayRate_]}]
         IN [s2 EXCEPT !.active_ = TRUE]

\* disable_ (lines 213-229).  webkitCancelRequestAnimationFrame is handed the
\* bound handler, not a request handle: hit says whether the host cancels a
\* request for it (both outcomes are modelled).
disable_(s, hit) ==
    IF ~s.active_ THEN s
    ELSE LET s1 == IF host = "moz"
                      THEN [s EXCEPT !.mozListeners = IF @ > 0 THEN @ - 1 ELSE 0]
                   ELSE IF host = "webkit"
                      THEN [s EXCEPT !.rafPending = IF hit /\ @ > 0 THEN @ - 1 ELSE @]
                   ELSE [s EXCEPT !.timers = {t \in @ : t.id # s.intervalID_}]
         IN [s1 EXCEPT !.active_ = FALSE]

\* ------------------------------------------------------------------ goog.array
\* goog.array.insert(arr, obj): push obj unless arr already holds it (===);
\* held says whether an element of arr is identical to obj.
ArrayInsert(arr, obj, held) == IF held THEN arr ELSE Append(arr, obj)

\* The objects taskStack_ is searched for: the Task at position k, and the
\* functionStack_ array of that Task.
TaskObj(k) == [kind |-> "Task", k |-> k]
StackObj(k) == [kind |-> "functionStack_", k |-> k]

\* goog.array.indexOf over taskStack_ (0: not found).
IndexOf(stack, obj) ==
    IF \E k \in 1..Len(stack) : TaskObj(k) = obj
    THEN CHOOSE k \in 1..Len(stack) : TaskObj(k) = obj
    ELSE 0

\* goog.array.remove(arr, obj): remove the first element identical to obj.
ArrayRemove(stack, obj) ==
    IF IndexOf(stack, obj) > 0 THEN RemoveAt(stack, IndexOf(stack, obj)) ELSE stack

\* ------------------------------------------------------------------ schedule / unschedule
NoTask == [def |-> FALSE, at |-> 0, task |-> Task(0, -1, FALSE)]
\* an opt_task argument: the Task at position at of taskStack_, or (at = 0)
\* a Task that is not in taskStack_
OptTask(at, task) == [def |-> TRUE, at |-> at, task |-> task]

\* schedule (lines 139-146)
schedule(s, f, context, opt_task, now, inTick) ==
    LET at == IF opt_task.def THEN opt_task.at ELSE 1
        task == IF at > 0 THEN s.taskStack_[at] ELSE opt_task.task
        \* [1, f, context] is a new array: no element is identical to it
        task1 == [task EXCEPT !.functionStack_ =
                      ArrayInsert(@, Entry(f, context, inTick), FALSE)]
        stack1 == IF at > 0 THEN [s.taskStack_ EXCEPT ![at] = task1]
                  ELSE ArrayInsert(s.taskStack_, task1, FALSE)
    IN activate_([s EXCEPT !.taskStack_ = stack1], now)

\* the inner loop of unschedule (lines 158-165), i counting down
RECURSIVE RemoveMatching(_, _, _, _)
RemoveMatching(fs, i, f, context) ==
    IF i = 0 THEN fs
    ELSE RemoveMatching(IF fs[i].f = f /\ fs[i].c = context
                           THEN RemoveAt(fs, i) ELSE fs,
                        i - 1, f, context)

\* the outer loop of unschedule (lines 155-169), j counting down
RECURSIVE UnscheduleFrom(_, _, _, _)
UnscheduleFrom(stack, j, f, context) ==
    IF j = 0 THEN stack
    ELSE LET fs1 == RemoveMatching(stack[j].functionStack_,
                                   Len(stack[j].functionStack_), f, context)
             st1 == [stack EXCEPT ![j].functionStack_ = fs1]
             st2 == IF Len(fs1) = 0 /\ j # 1
                       THEN ArrayRemove(st1, StackObj(j))
                       ELSE st1
         IN UnscheduleFrom(st2, j - 1, f, context)

\* unschedule (lines 154-175)
unschedule(s, f, context, hit) ==
    LET stack == UnscheduleFrom(s.taskStack_, Len(s.taskStack_), f, context)
        s1 == [s EXCEPT !.taskStack_ = stack]
    IN IF Len(stack) = 1 /\ Len(stack[1].functionStack_) = 0
          THEN disable_(s1, hit)
          ELSE s1

\* scheduleWithDelay (lines 322-326)
scheduleWithDelay(s, f, context, delay, opt_limit, now, inTick) ==
    schedule(s, f, context, OptTask(0, Task(delay, opt_limit, FALSE)), now, inTick)

\* callAfter (lines 310-312)
callAfter(s, f, context, delay, now, inTick) ==
    scheduleWithDelay(s, f, context, delay, 1, now, inTick)

\* setDisplayRate (lines 123-129)
setDisplayRate(s, value, now, hit) ==
    LET s1 == [s EXCEPT !.displayRate_ = value]
    IN IF s1.active_ THEN activate_(disable_(s1, hit), now) ELSE s1

\* context.getDirector: nodes have it, plain objects do not, and reading it
\* from a null or undefined context is a TypeError
HasGetDirector(c) == c \in {"nodeG"}
GetDirector(c) == IF c = "nodeG" THEN "G" ELSE "none"
IsNullish(c) == c = "null"

\* the loops of changeDirectorActivity (lines 287-301), j and i counting
\* down from Task j, entry i; the walk ends at the first entry whose context
\* has no properties to read (line 294)
RECURSIVE DirectorWalk(_, _, _, _, _)
DirectorWalk(stack, j, i, director, value) ==
    IF j = 0 THEN [stack |-> stack, thrown |-> FALSE]
    ELSE IF i = 0
       THEN DirectorWalk(stack, j - 1,
                         IF j > 1 THEN Len(stack[j - 1].functionStack_) ELSE 0,
                         director, value)
    ELSE LET context == stack[j].functionStack_[i].c
         IN IF IsNullish(context) THEN [stack |-> stack, thrown |-> TRUE]
            ELSE DirectorWalk(
                    IF HasGetDirector(context) /\ GetDirector(context) = director
                       THEN [stack EXCEPT ![j].functionStack_[i].act = value]
                       ELSE stack,
                    j, i - 1, director, value)

\* changeDirectorActivity (lines 286-302): the manager it leaves, and whether
\* it ended by a TypeError
changeDirectorActivity(s, director, value) ==
    LET w == DirectorWalk(s.taskStack_, Len(s.taskStack_),
                          Len(s.taskStack_[Len(s.taskStack_)].functionStack_),
                          director, value)
    IN [s |-> [s EXCEPT !.taskStack_ = w.stack], thrown |-> w.thrown]

\* ------------------------------------------------------------------ step_ / dispatch_
\* the history flags are dropped when the tick is over
ClearTick(stack) ==
    [j \in 1..Len(stack) |->
        [stack[j] EXCEPT !.functionStack_ =
            [i \in 1..Len(@) |-> [@[i] EXCEPT !.seen = FALSE, !.born = FALSE]]]]

\* lines 72-78 of step_: whether a tick of dt fires the Task, the delta it
\* hands to the callbacks, and the countdown it leaves
FiresOnlyPast(task, dt) == ~(task.delta >= dt)
Fires(task, dt) == ~(task.delta > dt)
FiredDelta(task, dt) == task.maxdelta + dt - task.delta
NextDeltaRestart(task, dt) ==
    IF ~Fires(task, dt) THEN task.delta - dt ELSE 0
NextDelta(task, dt) ==
    IF ~Fires(task, dt) THEN task.delta - dt
    ELSE IF task.maxdelta - (dt - task.delta) < 0 THEN 0
    ELSE task.maxdelta - (dt - task.delta)

\* The deltas owed to the firing after one that came when elapsed had been
\* counted and due were owed: the cadence less the overshoot elapsed - due,
\* and nothing when the overshoot exceeds the cadence (lines 77-78, told in
\* sums of deltas).
NextDue(task, elapsed) ==
    IF task.maxdelta - (elapsed - task.due) < 0 THEN 0
    ELSE task.maxdelta - (elapsed - task.due)

\* the fire limit's account of one more firing
NextQuota(q) == IF q > 0 THEN q - 1 ELSE IF q = 0 THEN -2 ELSE q

\* what the handler does after dispatch_ returned (lines 238-239, 249-250, 264)
Finish(s, r) ==
    [s EXCEPT !.lastRunTime_ = r.time,
              !.rafPending = IF r.handler = "animationFrameHandler_" THEN @ + 1 ELSE @,
              !.mozRequested = IF r.handler = "beforePaintHandler_" THEN TRUE ELSE @,
              !.taskStack_ = ClearTick(@)]

\* where a handler stands when control leaves the manager's code: inside a
\* callback, or back in the host (idle), possibly by a TypeError
Conf(s, r, at, err) == [s |-> s, run |-> r, pc |-> at, thrown |-> err]

\* The handler runs on from the loop of dispatch_ (at = "dispatch_", lines
\* 275-277) or from the walk of step_ (at = "step_", lines 81-85) until it
\* calls a callback or returns.  hit: see disable_.
RECURSIVE Advance(_, _, _, _)
Advance(s, r, at, hit) ==
    IF at = "dispatch_"
    THEN IF r.j = 0 THEN Conf(Finish(s, r), NoRun, "idle", FALSE)
         ELSE LET task == s.taskStack_[r.j]
              IN IF task.functionStack_ = <<>>                      \* line 71
                    THEN Advance(s, [r EXCEPT !.j = @ - 1], "dispatch_", hit)
                 ELSE IF ~Fires(task, r.dt)                         \* lines 72-74
                    THEN Advance([s EXCEPT !.taskStack_[r.j].delta = NextDelta(task, r.dt),
                                           !.taskStack_[r.j].stepped = @ + r.dt],
                                 [r EXCEPT !.j = @ - 1], "dispatch_", hit)
                 ELSE Advance([s EXCEPT !.taskStack_[r.j].delta = NextDelta(task, r.dt),
                                        !.taskStack_[r.j].stepped = 0,
                                        !.taskStack_[r.j].due =
                                            NextDue(task, task.stepped + r.dt),
                                        !.taskStack_[r.j].quota = NextQuota(@)],
                              [r EXCEPT !.firedDelta = FiredDelta(task, r.dt),
                                        !.elapsed = task.stepped + r.dt,
                                        !.due = task.due,
                                        !.i = Len(task.functionStack_),
                                        !.f = Undefined],
                              "step_", hit)
    ELSE IF r.i = 0
    THEN \* lines 86-91, f being the entry the walk looked at last
         LET task == s.taskStack_[r.j]
             s1 == [s EXCEPT !.taskStack_[r.j].limit = @ - 1]
             r1 == [r EXCEPT !.j = @ - 1]
         IN IF task.limit = -1 THEN Advance(s, r1, "dispatch_", hit)
            ELSE IF task.limit - 1 # 0 THEN Advance(s1, r1, "dispatch_", hit)
            ELSE IF ~r.f.def        \* f[1] of undefined: the TypeError leaves the handler
               THEN Conf([s1 EXCEPT !.taskStack_ = ClearTick(@)], NoRun, "idle", TRUE)
            ELSE Advance(unschedule(s1, r.f.f, r.f.c, hit), r1, "dispatch_", hit)
    ELSE LET fs == s.taskStack_[r.j].functionStack_
             f == IF r.i <= Len(fs) THEN fs[r.i] ELSE Undefined
             s1 == IF f.def
                      THEN [s EXCEPT !.taskStack_[r.j].functionStack_[r.i].seen = TRUE]
                      ELSE s
             r1 == [r EXCEPT !.i = @ - 1, !.f = f, !.ops = 0]
         IN IF f.def /\ f.act                                        \* line 83
               THEN Conf(s1, r1, "callback", FALSE)
               ELSE Advance(s1, r1, "step_", hit)

\* dispatch_ (lines 273-278) called by a handler with its timestamp
dispatch_(s, handler, time, delta, hit) ==
    Advance(s, [NoRun EXCEPT !.handler = handler, !.time = time, !.dt = delta,
                             !.j = Len(s.taskStack_)],
            "dispatch_", hit)

\* ------------------------------------------------------------------ bounds of the model
Regs(stack) ==
    LET RECURSIVE Sum(_)
        Sum(k) == IF k = 0 THEN 0 ELSE Len(stack[k].functionStack_) + Sum(k - 1)
    IN Sum(Len(stack))

\* the frame requests outstanding once the running handler has asked for the
\* next one stay within MaxChains
ChainsBounded(s) ==
    s.rafPending + (IF run.handler = "animationFrameHandler_" THEN 1 ELSE 0)
        <= MaxChains

Bounded(s) ==
    /\ Len(s.taskStack_) <= MaxTasks
    /\ Regs(s.taskStack_) <= MaxRegs
    /\ ChainsBounded(s)

\* a tick of dt keeps every countdown within MaxAcc
TickBounded(dt) ==
    \A k \in 1..Len(taskStack_) :
        taskStack_[k].functionStack_ # <<>> => NextDelta(taskStack_[k], dt) <= MaxAcc

\* ------------------------------------------------------------------ calls
\* A call of the public interface is made by the application between ticks
\* or by the callback that is running.
CanCall == pc = "idle" \/ (pc = "callback" /\ run.ops < MaxCbOps)
InTick == pc = "callback"

Called(isSelf) ==
    /\ pc' = pc
    /\ run' = IF pc = "callback"
                 THEN [run EXCEPT !.ops = @ + 1, !.selfOnly = @ /\ isSelf]
                 ELSE run
    /\ thrown' = FALSE
    /\ UNCHANGED host

Do(s, isSelf) == Commit(s) /\ Called(isSelf)

\* schedule(f, context)
Schedule ==
    /\ CanCall
    /\ \E p \in Pairs, now \in Times :
          LET s == schedule(St, p[1], p[2], NoTask, now, InTick)
          IN Bounded(s) /\ Do(s, FALSE)

\* schedule(f, context, task) with a Task of the application: a new one, or
\* one it has scheduled on before
ScheduleOnTask ==
    /\ CanCall
    /\ \E p \in Pairs, now \in Times :
          \/ \E d \in Delays, l \in Limits :
                LET s == schedule(St, p[1], p[2], OptTask(0, Task(d, l, TRUE)),
                                  now, InTick)
                IN Bounded(s) /\ Do(s, FALSE)
          \/ \E k \in 1..Len(taskStack_) :
                LET s == schedule(St, p[1], p[2], OptTask(k, taskStack_[k]),
                                  now, InTick)
                IN taskStack_[k].pub /\ Bounded(s) /\ Do(s, FALSE)

ScheduleWithDelay ==
    /\ CanCall
    /\ \E p \in Pairs, now \in Times, d \in Delays, l \in Limits :
          LET s == scheduleWithDelay(St, p[1], p[2], d, l, now, InTick)
          IN Bounded(s) /\ Do(s, FALSE)

CallAfter ==
    /\ CanCall
    /\ \E p \in Pairs, now \in Times, d \in Delays :
          LET s == callAfter(St, p[1], p[2], d, now, InTick)
          IN Bounded(s) /\ Do(s, FALSE)

Unschedule ==
    /\ CanCall
    /\ \E p \in Pairs, hit \in BOOLEAN :
          Do(unschedule(St, p[1], p[2], hit),
             pc = "callback" /\ run.f.f = p[1] /\ run.f.c = p[2])

SetDisplayRate ==
    /\ CanCall
    /\ \E value \in Rates, now \in Times, hit \in BOOLEAN :
          LET s == setDisplayRate(St, value, now, hit)
          IN ChainsBounded(s) /\ Do(s, FALSE)

\* A call ends by a TypeError.  Made by a callback, the callback catches
\* the error, or the error leaves the callback, step_, dispatch_ and the
\* tick handler, which does not reach its last lines.
Raised(s) ==
    /\ thrown' = TRUE
    /\ UNCHANGED host
    /\ \/ /\ Commit(s)
          /\ pc' = pc
          /\ run' = IF pc = "callback"
                       THEN [run EXCEPT !.ops = @ + 1, !.selfOnly = FALSE]
                       ELSE run
       \/ /\ pc = "callback"
          /\ Commit([s EXCEPT !.taskStack_ = ClearTick(@)])
          /\ pc' = "idle"
          /\ run' = NoRun

\* changeDirectorActivity(d, value) is called
ChangeDirectorActivityOf(d, value) ==
    LET res == changeDirectorActivity(St, d, value)
    IN IF res.thrown THEN Raised(res.s) ELSE Do(res.s, FALSE)

ChangeDirectorActivity ==
    /\ CanCall
    /\ \E d \in Directors, value \in BOOLEAN : ChangeDirectorActivityOf(d, value)

\* ------------------------------------------------------------------ tick handlers
Land(conf) ==
    /\ Commit(conf.s)
    /\ pc' = conf.pc
    /\ run' = conf.run
    /\ thrown' = conf.thrown
    /\ UNCHANGED host

\* stepTimer_ (lines 258-265), called by a live interval timer
StepTimer ==
    /\ pc = "idle"
    /\ timers # {}
    /\ \E curTime \in Times, hit \in BOOLEAN :
          LET delta0 == curTime - lastRunTime_
              delta == IF delta0 < 0 THEN 1 ELSE delta0
          IN /\ TickBounded(delta)
             /\ Land(dispatch_(St, "stepTimer_", curTime, delta, hit))

\* animationFrameHandler_ (lines 235-240), called for an outstanding request
AnimationFrameHandler ==
    /\ pc = "idle"
    /\ rafPending > 0
    /\ \E time \in Times, hit \in BOOLEAN :
          LET delta == time - lastRunTime_
          IN /\ TickBounded(delta)
             /\ Land(dispatch_([St EXCEPT !.rafPending = @ - 1],
                               "animationFrameHandler_", time, delta, hit))

\* a requested MozBeforePaint event; beforePaintHandler_ (lines 246-251) runs
\* if it is registered
BeforePaint ==
    /\ pc = "idle"
    /\ mozRequested
    /\ IF mozListeners > 0
          THEN \E timeStamp \in Times, hit \in BOOLEAN :
                  LET delta == timeStamp - lastRunTime_
                  IN /\ TickBounded(delta)
                     /\ Land(dispatch_([St EXCEPT !.mozRequested = FALSE],
                                       "beforePaintHandler_", timeStamp, delta, hit))
          ELSE /\ mozRequested' = FALSE
               /\ thrown' = FALSE
               /\ UNCHANGED <<taskStack_, active_, intervalID_, displayRate_,
                              lastRunTime_, host, timers, rafPending, mozListeners,
                              pc, run>>

\* the callback returns to the walk of step_
Return ==
    /\ pc = "callback"
    /\ \E hit \in BOOLEAN : Land(Advance(St, run, "step_", hit))

\* ------------------------------------------------------------------ specification
Init ==
    /\ taskStack_ = <<Task(0, -1, FALSE)>>
    /\ active_ = FALSE
    /\ intervalID_ = 0
    /\ displayRate_ = DefaultRate
    /\ lastRunTime_ = 0
    /\ host \in Hosts
    /\ timers = {}
    /\ rafPending = 0
    /\ mozListeners = 0
    /\ mozRequested = FALSE
    /\ pc = "idle"
    /\ run = NoRun
    /\ thrown = FALSE

Next ==
    \/ Schedule
    \/ ScheduleOnTask
    \/ ScheduleWithDelay
    \/ CallAfter
    \/ Unschedule
    \/ SetDisplayRate
    \/ ChangeDirectorActivity
    \/ StepTimer
    \/ AnimationFrameHandler
    \/ BeforePaint
    \/ Return

Spec == Init /\ [][Next]_vars

\* The application keeps to schedule(f, context) and unschedule on the
\* default Task, which may hold MaxWalk registrations; interval timer.
ScheduleWalk ==
    /\ CanCall
    /\ \E p \in Pairs, now \in Times :
          LET s == schedule(St, p[1], p[2], NoTask, now, InTick)
          IN Regs(s.taskStack_) <= MaxWalk /\ Do(s, FALSE)

InitWalk == Init /\ host = "interval"

NextWalk ==
    \/ ScheduleWalk
    \/ Unschedule
    \/ StepTimer
    \/ Return

SpecWalk == InitWalk /\ [][NextWalk]_vars

\* The application schedules on the default Task, also with a null context,
\* and pauses and resumes the director's group; interval timer.
ScheduleGroup ==
    /\ CanCall
    /\ \E p \in Pairs \cup NullPairs, now \in Times :
          LET s == schedule(St, p[1], p[2], NoTask, now, InTick)
          IN Regs(s.taskStack_) <= MaxWalk /\ Do(s, FALSE)

NextGroup ==
    \/ ScheduleGroup
    \/ ChangeDirectorActivity
    \/ StepTimer
    \/ Return

SpecGroup == InitWalk /\ [][NextGroup]_vars

\* ------------------------------------------------------------------ claims
Holds(stack, f, c) ==
    \E k \in 1..Len(stack) : \E i \in 1..Len(stack[k].functionStack_) :
        stack[k].functionStack_[i].f = f /\ stack[k].functionStack_[i].c = c

Copies(fs, p) == Cardinality({i \in 1..Len(fs) : fs[i].f = p[1] /\ fs[i].c = p[2]})

\* the Task made by callAfter (or by scheduleWithDelay with opt_limit 1)
IsCallAfter(task) == ~task.pub /\ task.opt_limit = 1

\* a clock source delivers a tick to dispatch_
TickStart ==
    \/ StepTimer
    \/ AnimationFrameHandler
    \/ BeforePaint /\ mozListeners > 0

\* C1 (as claimed): between operations the scheduler is active if and only
\* if some Task in taskStack_ holds a registration.
C1_ActiveIffRegistered ==
    pc = "idle" => (active_ <=> HasRegs(taskStack_))

\* C2 (as claimed): no Task other than the default Task stays in taskStack_
\* with zero registrations.
C2_NoEmptyTaskLeft ==
    \A k \in 2..Len(taskStack_) : taskStack_[k].functionStack_ # <<>>

\* C3 (as claimed): a Task holds at most one registration of a (callback,
\* context) pair, however often schedule is called with it.
C3_ScheduleIdempotent ==
    \A k \in 1..Len(taskStack_) : \A p \in Pairs :
        Copies(taskStack_[k].functionStack_, p) <= 1

\* C4 (as claimed): a registration inserted during a dispatch tick is not
\* invoked during that tick.
C4_InsertedNotInvoked ==
    pc = "callback" => ~run.f.born

\* C5 (as claimed): the walk of a Task's registrations invokes no entry a
\* second time in one step, whatever the callbacks unschedule.
C5_NoRepeatVisit ==
    pc = "callback" => ~run.f.seen

\* C6 (as claimed): in a tick whose callbacks do nothing but unschedule
\* themselves, no callback is invoked a second time.
C6_SelfRemovalNoDoubleFire ==
    (pc = "callback" /\ run.selfOnly) => ~run.f.seen

\* the (callback, context) of callAfter's Task k: the entry being invoked, or
\* the one it holds
PairOf(k) ==
    IF pc = "callback" /\ run.j = k THEN <<run.f.f, run.f.c>>
    ELSE <<taskStack_[k].functionStack_[1].f, taskStack_[k].functionStack_[1].c>>

\* this step uses up the one firing of callAfter's Task k
UsesUp(k) ==
    /\ IsCallAfter(taskStack_[k])
    /\ taskStack_[k].limit = 1
    /\ taskStack_'[k].limit = 0

\* callAfter's Task invokes f only while its firing is unused, once in the
\* walk, and not before the deltas it was stepped with sum to the delay
C7_OnlyOnceWhenDue ==
    (pc = "callback" /\ IsCallAfter(taskStack_[run.j])) =>
        /\ taskStack_[run.j].limit = 1
        /\ ~run.f.seen
        /\ run.elapsed >= taskStack_[run.j].maxdelta

\* callAfter's Task does not hold its registration past the step at which
\* the deltas it was stepped with sum to the delay
C7_NotLate ==
    \A k \in 1..Len(taskStack_) :
        (IsCallAfter(taskStack_[k]) /\ taskStack_[k].limit = 1
            /\ taskStack_[k].functionStack_ # <<>>)
        => taskStack_[k].stepped < taskStack_[k].maxdelta

\* once fired, callAfter's Task holds nothing and never fires again
C7_Spent ==
    \A k \in 1..Len(taskStack_) :
        IsCallAfter(taskStack_[k]) =>
            /\ taskStack_[k].limit \in {0, 1}
            /\ taskStack_[k].limit = 0 => taskStack_[k].functionStack_ = <<>>

\* when the firing step returns no Task holds (f, ctx)
C7_Removed ==
    \A k \in 1..Len(taskStack_) :
        UsesUp(k) => ~Holds(taskStack_', PairOf(k)[1], PairOf(k)[2])

\* C7 (as claimed): callAfter(f, ctx, d) invokes f exactly once, at the
\* first tick at which the deltas sum to d, and then no Task holds (f, ctx):
\* the step that uses up the Task's firing is the return of f.
C7_CallAfterExactlyOnce ==
    /\ [](C7_OnlyOnceWhenDue /\ C7_NotLate /\ C7_Spent)
    /\ [][C7_Removed /\ \A k \in 1..Len(taskStack_) :
                            UsesUp(k) => (pc = "callback" /\ run.j = k)]_vars

\* C7 (amended): callAfter(f, ctx, d) invokes f at most once, at the first
\* step of its Task at which the deltas it was stepped with sum to d; that
\* step invokes f unless the registration is paused (changeDirectorActivity),
\* uses up the firing either way, and leaves (f, ctx) in no Task; the Task
\* holds nothing afterwards.
C7_CallAfterOnceUnlessPaused ==
    /\ [](C7_OnlyOnceWhenDue /\ C7_NotLate /\ C7_Spent)
    /\ [][C7_Removed /\ \A k \in 1..Len(taskStack_) :
                            UsesUp(k) =>
                                \/ pc = "callback" /\ run.j = k
                                \/ /\ taskStack_[k].functionStack_ # <<>>
                                   /\ ~taskStack_[k].functionStack_[1].act]_vars

\* C7 witness: callAfter's Task invokes f at a tick that completes the
\* delay begun by earlier ticks.
C7_Witness ==
    /\ pc = "callback"
    /\ IsCallAfter(taskStack_[run.j])
    /\ run.elapsed >= taskStack_[run.j].maxdelta
    /\ run.dt < run.elapsed

\* C8 (as claimed): a Task made with fire limit L >= 0 invokes callbacks on
\* at most L ticks.
C8_FireLimitRespected ==
    pc = "callback" => taskStack_[run.j].quota # -2

\* C9 (as claimed): no tick is delivered to dispatch_ while no Task holds a
\* registration.
C9_NoTickWithoutRegistration ==
    [][TickStart => HasRegs(taskStack_)]_vars

\* C10 (as claimed): at most one tick source is armed: one live interval
\* timer, one frame-request chain (the request outstanding, or the handler
\* that is about to renew it), one MozBeforePaint listener.
C10_OneTickSource ==
    /\ Cardinality(timers) <= 1
    /\ rafPending + (IF run.handler = "animationFrameHandler_" THEN 1 ELSE 0) <= 1
    /\ mozListeners <= 1

\* C11 (as claimed): a Task fires only when the deltas it was stepped with
\* since its previous firing (or its creation) sum to its cadence at least.
C11_FullCadenceBetweenFirings ==
    pc = "callback" => run.elapsed >= taskStack_[run.j].maxdelta

\* C11 (amended): a Task fires only when the deltas it was stepped with since
\* its previous firing sum to what that firing left owed, which is the
\* cadence for a Task that has not fired and the cadence less the overshoot
\* of the previous firing's tick afterwards (nothing if that tick overshot
\* by more than the cadence); the countdown is what is owed less what has
\* been counted.
C11_OwedBetweenFirings ==
    /\ pc = "callback" => run.elapsed >= run.due
    /\ \A k \in 1..Len(taskStack_) :
          /\ taskStack_[k].due \in 0..taskStack_[k].maxdelta
          /\ taskStack_[k].delta = taskStack_[k].due - taskStack_[k].stepped

\* C11 witness: after a tick that overshot, a Task with a cadence fires
\* although fewer deltas than its cadence have been counted since.
C11_Witness ==
    /\ pc = "callback"
    /\ taskStack_[run.j].maxdelta > 0
    /\ run.due < taskStack_[run.j].maxdelta
    /\ run.elapsed >= run.due
    /\ run.elapsed < taskStack_[run.j].maxdelta

\* C12 (as claimed): the value handed to a callback is the sum of the deltas
\* its Task was stepped with since the Task's previous firing (or creation).
C12_ReportsElapsed ==
    pc = "callback" => run.firedDelta = run.elapsed

\* C13 (as claimed): the delta a tick handler hands to dispatch_, and the
\* value step_ hands to a callback, is 1 ms at least.
C13_DeltaAtLeastOne ==
    pc = "callback" => (run.dt >= 1 /\ run.firedDelta >= 1)

\* context c reports director d
InGroup(c, d) == HasGetDirector(c) /\ GetDirector(c) = d

\* every registration of d's group has the active flag value
GroupIs(stack, d, value) ==
    \A k \in 1..Len(stack) : \A i \in 1..Len(stack[k].functionStack_) :
        InGroup(stack[k].functionStack_[i].c, d)
            => stack[k].functionStack_[i].act = value

\* this step keeps every Task's countdown, limit and registrations
KeepsRegistrations ==
    /\ Len(taskStack_') = Len(taskStack_)
    /\ \A k \in 1..Len(taskStack_) :
          /\ taskStack_'[k].delta = taskStack_[k].delta
          /\ taskStack_'[k].limit = taskStack_[k].limit
          /\ Len(taskStack_'[k].functionStack_) = Len(taskStack_[k].functionStack_)
          /\ \A i \in 1..Len(taskStack_[k].functionStack_) :
                /\ taskStack_'[k].functionStack_[i].f = taskStack_[k].functionStack_[i].f
                /\ taskStack_'[k].functionStack_[i].c = taskStack_[k].functionStack_[i].c

\* this step keeps the active flag of registration i of Task k
KeepsFlag(k, i) ==
    taskStack_'[k].functionStack_[i].act = taskStack_[k].functionStack_[i].act

\* C14 (as claimed): while every registration of group G is paused a tick
\* invokes no callback of G; changeDirectorActivity(G, value) leaves every
\* registration of G with the flag value (paused by FALSE, firing again by
\* TRUE), and keeps the registrations, the countdowns and the flags of the
\* registrations outside G.
C14_PauseResume ==
    /\ [][\A d \in Directors :
            ((TickStart \/ Return) /\ GroupIs(taskStack_, d, FALSE))
                => ~(pc' = "callback" /\ InGroup(run'.f.c, d))]_vars
    /\ [][\A d \in Directors, value \in BOOLEAN :
            (CanCall /\ ChangeDirectorActivityOf(d, value))
                => /\ GroupIs(taskStack_', d, value)
                   /\ KeepsRegistrations
                   /\ \A k \in 1..Len(taskStack_) :
                        \A i \in 1..Len(taskStack_[k].functionStack_) :
                           ~InGroup(taskStack_[k].functionStack_[i].c, d)
                               => KeepsFlag(k, i)]_vars

\* C15 (as claimed): changeDirectorActivity raises no error and keeps the
\* active flag of every registration whose context has no getDirector, a
\* null context included.
C15_NeverThrows ==
    [][\A d \in Directors, value \in BOOLEAN :
          (CanCall /\ ChangeDirectorActivityOf(d, value))
              => /\ ~thrown'
                 /\ KeepsRegistrations
                 /\ \A k \in 1..Len(taskStack_) :
                      \A i \in 1..Len(taskStack_[k].functionStack_) :
                         ~HasGetDirector(taskStack_[k].functionStack_[i].c)
                             => KeepsFlag(k, i)]_vars

\* this step keeps the registrations of Task k
KeepsTask(k) ==
    /\ Len(taskStack_') >= k
    /\ Len(taskStack_'[k].functionStack_) = Len(taskStack_[k].functionStack_)
    /\ \A i \in 1..Len(taskStack_[k].functionStack_) :
          /\ taskStack_'[k].functionStack_[i].f = taskStack_[k].functionStack_[i].f
          /\ taskStack_'[k].functionStack_[i].c = taskStack_[k].functionStack_[i].c
          /\ KeepsFlag(k, i)

\* C16 (as claimed): when the callbacks of a firing have unscheduled all the
\* registrations of their Task and the firing uses up the Task's limit, the
\* step goes on without an error and keeps the other Tasks' registrations.
C16_SpentLimitIsNoOp ==
    [][(Return /\ taskStack_[run.j].functionStack_ = <<>>
               /\ taskStack_[run.j].limit = 1)
          => /\ ~thrown'
             /\ \A k \in 1..Len(taskStack_) : k # run.j => KeepsTask(k)]_vars

\* C17 (as claimed): the step in which the fire limit of a delayed Task
\* runs out keeps the registrations of the default Task.
C17_LimitRemovesOwnOnly ==
    [][\A k \in 2..Len(taskStack_) :
          (taskStack_[k].limit = 1 /\ taskStack_'[k].limit = 0) => KeepsTask(1)]_vars

\* the handler comes to its end, having passed the default Task, with an
\* active registration of the default Task (one held since before the
\* tick) not invoked
DefaultSkipped ==
    /\ TickStart \/ (Return /\ run.j >= 2)
    /\ pc' = "idle"
    /\ \E i \in 1..Len(taskStack_[1].functionStack_) :
          LET e == taskStack_[1].functionStack_[i]
          IN /\ e.act /\ ~e.born
             /\ Copies(taskStack_'[1].functionStack_, <<e.f, e.c>>) > 0

\* C18 (as claimed): every tick invokes each active registration of the
\* default Task, and none of them twice.
C18_DefaultFiresEveryTick ==
    /\ []((pc = "callback" /\ run.j = 1) => ~run.f.seen)
    /\ [][~DefaultSkipped]_vars

\* C19 (as claimed): on a host with frame notifications setDisplayRate
\* leaves the clock as it is: the active flag, the outstanding frame
\* requests, the MozBeforePaint listener and request, and lastRunTime_.
C19_NoEffectOnFrameClock ==
    [][(SetDisplayRate /\ host # "interval")
          => UNCHANGED <<active_, lastRunTime_, rafPending, mozListeners,
                         mozRequested>>]_vars

\* the host will call a tick handler again: a live interval timer, a frame
\* request outstanding or about to be renewed by the running handler, a
\* MozBeforePaint listener with the event requested
SourceArmed ==
    \/ timers # {}
    \/ rafPending > 0
    \/ run.handler = "animationFrameHandler_"
    \/ mozListeners > 0 /\ (mozRequested \/ run.handler = "beforePaintHandler_")

\* C20 (as claimed): whenever a Task holds a registration the scheduler is
\* active and its clock source is running.
C20_RegisteredHasClock ==
    HasRegs(taskStack_) => (active_ /\ SourceArmed)

====
